---- MODULE Spec2Model ----
(***************************************************************************)
(* nrofs: a read-only archive format (src/rust/src/lib.rs) and the FUSE    *)
(* filesystem that serves it (src/fuse/src/main.rs).                       *)
(*                                                                         *)
(* Numbers.  TLC's integers are 32 bits wide, the program's are u32, u64,  *)
(* i64 and i128.  A program integer is therefore a "word": the sequence of *)
(* its base-2^16 limbs, least significant first (u32: 2 limbs, u64: 4      *)
(* limbs).  Signed values (i64, i128) are a sign and a magnitude word.     *)
(* Bytes are 0..255.  A name is a sequence of bytes.                       *)
(***************************************************************************)
EXTENDS Integers, Sequences, FiniteSets, TLC

\* ------------------------------------------------------------------ bounds
\* The largest number of entries of an archive TLC builds.
MaxFiles == 2
\* The largest capacity (entries accepted before "full") of a readdir sink.
MaxCap == 2

\* ------------------------------------------------------------------- words
Base == 2^16
Half == 2^15

RECURSIVE WNat(_, _)
\* the k-limb word of the natural number n (n < 2^31)
WNat(n, k) == IF k = 0 THEN <<>> ELSE <<n % Base>> \o WNat(n \div Base, k - 1)

RECURSIVE WVal(_)
\* the natural number of a word (only for words below 2^31)
WVal(a) == IF a = <<>> THEN 0 ELSE Head(a) + Base * WVal(Tail(a))

RECURSIVE WIsZero(_)
WIsZero(a) == a = <<>> \/ (Head(a) = 0 /\ WIsZero(Tail(a)))

\* whether the word is small enough for WVal (below 2^31)
WFits(a) == \A i \in 1..Len(a) : (i = 2 => a[i] < Half) /\ (i > 2 => a[i] = 0)

\* zero-extension to k limbs (u64::from, `as u64`, `as i128`)
WExt(a, k) == a \o [i \in 1..(k - Len(a)) |-> 0]

\* truncation to k limbs (`as u32`)
WTrunc(a, k) == SubSeq(a, 1, k)

RECURSIVE WAddC(_, _, _)
\* a + b + c for words of one length: Len(a) limbs and the carry as last limb
WAddC(a, b, c) ==
    IF a = <<>> THEN <<c>>
    ELSE LET s == Head(a) + Head(b) + c
         IN  <<s % Base>> \o WAddC(Tail(a), Tail(b), s \div Base)

RECURSIVE WSubB(_, _, _)
\* a - b - c for words of one length: Len(a) limbs and the borrow as last limb
WSubB(a, b, c) ==
    IF a = <<>> THEN <<c>>
    ELSE LET d == Head(a) - Head(b) - c
         IN  <<(d + Base) % Base>>
                 \o WSubB(Tail(a), Tail(b), IF d < 0 THEN 1 ELSE 0)

RECURSIVE WLt(_, _)
\* a < b for words of one length
WLt(a, b) ==
    IF a = <<>> THEN FALSE
    ELSE LET k == Len(a)
         IN  IF a[k] # b[k] THEN a[k] < b[k]
             ELSE WLt(SubSeq(a, 1, k - 1), SubSeq(b, 1, k - 1))

WLe(a, b) == ~WLt(b, a)

\* wrapping sum and difference, and whether the exact result left the width
WAdd(a, b) == SubSeq(WAddC(a, b, 0), 1, Len(a))
WAddOverflows(a, b) == WAddC(a, b, 0)[Len(a) + 1] # 0
WSub(a, b) == SubSeq(WSubB(a, b, 0), 1, Len(a))
WSubOverflows(a, b) == WSubB(a, b, 0)[Len(a) + 1] # 0

RECURSIVE WShl(_, _)
\* a shifted left by s bits within its width; the bits shifted out are lost
WShl(a, s) == IF s = 0 THEN a ELSE WShl(WAdd(a, a), s - 1)

\* bit 63 of a u64; the u64 with bit 63 flipped (n ^ (1 << 63))
Bit63(a) == a[4] >= Half
XorBit63(a) == [a EXCEPT ![4] = IF a[4] >= Half THEN a[4] - Half ELSE a[4] + Half]

U32Max == <<Base - 1, Base - 1>>
U64Max == <<Base - 1, Base - 1, Base - 1, Base - 1>>
U32(n) == WNat(n, 2)
U64(n) == WNat(n, 4)

\* ------------------------------------------------------- signed magnitudes
\* an i64 or i128 value: sign and magnitude (8 limbs), zero is not negative
SInt(neg, mag) == [neg |-> neg /\ ~WIsZero(mag), mag |-> WExt(mag, 8)]
\* i128::from(x) and `x as i128` of an unsigned word
I128(w) == SInt(FALSE, w)

SNeg(x) == SInt(~x.neg, x.mag)

\* x + y; an i128 sum of a u64 and an i64 cannot leave 128 bits
SAdd(x, y) ==
    IF x.neg = y.neg THEN SInt(x.neg, WAdd(x.mag, y.mag))
    ELSE IF WLt(x.mag, y.mag) THEN SInt(y.neg, WSub(y.mag, x.mag))
    ELSE SInt(x.neg, WSub(x.mag, y.mag))

SSub(x, y) == SAdd(x, SNeg(y))

SLt(x, y) ==
    IF x.neg # y.neg THEN x.neg
    ELSE IF x.neg THEN WLt(y.mag, x.mag) ELSE WLt(x.mag, y.mag)

SMin(x, y) == IF SLt(y, x) THEN y ELSE x
SMax(x, y) == IF SLt(x, y) THEN y ELSE x

\* u64::try_from: defined when the value is in 0 .. 2^64 - 1
SFitsU64(x) == ~x.neg /\ \A i \in 5..8 : x.mag[i] = 0

\* --------------------------------------------------------- backing stream
\* The backing store is a byte stream: `bytes` are its first bytes, written
\* out, and the stream goes on to `len` bytes in all, the byte at a position
\* past the written ones being Fill of the position.  `len` is below 2^31.
Fill(p) == 1 + (p % 251)
ByteAt(a, p) == IF p < Len(a.bytes) THEN a.bytes[p + 1] ELSE Fill(p)

\* the bytes left in the stream at cursor p (0 at and past the end)
Avail(a, p) == IF WFits(p) /\ WVal(p) < a.len THEN a.len - WVal(p) ELSE 0

\* File::read_exact(n bytes) at cursor p: every byte or an error
ReadExact(a, p, n) ==
    IF n <= Avail(a, p)
    THEN [ok |-> TRUE, pos |-> WAdd(p, U64(n)),
          data |-> [i \in 1..n |-> ByteAt(a, WVal(p) + i - 1)]]
    ELSE [ok |-> FALSE, pos |-> p, data |-> <<>>]

\* ------------------------------------------------------------ format reader
MAGIC == <<78, 114, 82, 100, 79, 110, 108, 121>>
VERSION == 0

\* u32::from_le_bytes
U32FromLe(b) == <<b[1] + 256 * b[2], b[3] + 256 * b[4]>>

NoHeader == [block_size |-> 0, file_count |-> U32(0)]

\* (mutant) the version is looked at before the magic
parse_header_VersionFirst(d) ==
    IF d[9] # VERSION
    THEN [tag |-> "UnsupportedVersion", header |-> NoHeader]
    ELSE IF SubSeq(d, 1, 8) # MAGIC
    THEN [tag |-> "BadMagic", header |-> NoHeader]
    ELSE [tag |-> "Ok",
          header |-> [block_size |-> d[10],
                      file_count |-> U32FromLe(SubSeq(d, 13, 16))]]

parse_header(d) ==
    IF SubSeq(d, 1, 8) # MAGIC
    THEN [tag |-> "BadMagic", header |-> NoHeader]
    ELSE IF d[9] # VERSION
    THEN [tag |-> "UnsupportedVersion", header |-> NoHeader]
    ELSE [tag |-> "Ok",
          header |-> [block_size |-> d[10],
                      file_count |-> U32FromLe(SubSeq(d, 13, 16))]]

parse_entry(d) ==
    [filename_addr |-> U32FromLe(SubSeq(d, 1, 4)),
     block_addr |-> U32FromLe(SubSeq(d, 5, 8)),
     file_size |-> U32FromLe(SubSeq(d, 9, 12))]

NoEntry == [filename_addr |-> U32(0), block_addr |-> U32(0), file_size |-> U32(0)]

\* Header::load over io = |b| file.read_exact(b), the cursor at p
HeaderLoad(a, p) ==
    LET r == ReadExact(a, p, 16)
    IN  IF ~r.ok THEN [tag |-> "Other", header |-> NoHeader, pos |-> r.pos]
        ELSE [tag |-> parse_header(r.data).tag,
              header |-> parse_header(r.data).header, pos |-> r.pos]

\* Fs::do_io: Op::Seek(t) sets the one cursor of the shared stream,
\* Op::Advance(d) moves it by d, Op::Read(b) is read_exact at the cursor
Seek(p, t) == t
Advance(p, d) ==
    LET q == SAdd(I128(p), d) IN IF SFitsU64(q) THEN WTrunc(q.mag, 4) ELSE p

\* 16 + u64::from(index) * 12
EntryAddr(index) ==
    LET x == WExt(index, 4) IN WAdd(U64(16), WAdd(WShl(x, 3), WShl(x, 2)))

\* get(index, io), the cursor at p: Seek(16 + index * 12), Read(12 bytes),
\* parse_entry
get(a, p, index) ==
    LET r == ReadExact(a, Seek(p, EntryAddr(index)), 12)
    IN  IF r.ok THEN [ok |-> TRUE, entry |-> parse_entry(r.data), pos |-> r.pos]
        ELSE [ok |-> FALSE, entry |-> NoEntry, pos |-> r.pos]

\* (mutant) the entry is read where the cursor happens to be
HeaderGet_NoSeek(a, p, h, index) ==
    LET r == ReadExact(a, p, 12)
    IN  IF WLt(index, h.file_count)
        THEN [some |-> TRUE, ok |-> r.ok, pos |-> r.pos,
              entry |-> IF r.ok THEN parse_entry(r.data) ELSE NoEntry]
        ELSE [some |-> FALSE, ok |-> TRUE, entry |-> NoEntry, pos |-> p]

\* Header::get: None when index >= file_count
HeaderGet(a, p, h, index) ==
    IF WLt(index, h.file_count)
    THEN [some |-> TRUE] @@ get(a, p, index)
    ELSE [some |-> FALSE, ok |-> TRUE, entry |-> NoEntry, pos |-> p]

\* read_string: one length byte, then that many bytes
read_string(a, p) ==
    LET l == ReadExact(a, p, 1)
    IN  IF ~l.ok THEN [ok |-> FALSE, name |-> <<>>, pos |-> l.pos]
        ELSE LET r == ReadExact(a, l.pos, l.data[1])
             IN  [ok |-> r.ok, name |-> r.data, pos |-> r.pos]

\* Entry::name: Seek(filename_addr), read_string
EntryName(a, p, e) == read_string(a, Seek(p, WExt(e.filename_addr, 4)))

\* A shift by the width or more panics with overflow checks on and is taken
\* modulo the width without.
ShiftFaults(bits, s, checks) == checks /\ s >= bits
ShiftAmount(bits, s) == s % bits

\* Entry::offset: u64::from(block_addr) << block_size
EntryOffset(e, h) == WShl(WExt(e.block_addr, 4), ShiftAmount(64, h.block_size))

\* Header::iter: Seek(16), Iter { count: file_count, offset: 0 }
HeaderIter(p, h) ==
    [iter |-> [offset |-> U32(0), count |-> h.file_count], pos |-> Seek(p, U64(16))]

\* Iter::next: None at offset >= count, else get(offset) and offset + 1
IterNext(a, p, iter) ==
    IF WLt(iter.offset, iter.count)
    THEN [some |-> TRUE, index |-> iter.offset,
          iter |-> [iter EXCEPT !.offset = WAdd(iter.offset, U32(1))]]
             @@ get(a, p, iter.offset)
    ELSE [some |-> FALSE, index |-> iter.offset, iter |-> iter,
          ok |-> TRUE, entry |-> NoEntry, pos |-> p]

\* u32::saturating_add
SaturatingAdd(x, y) == IF WAddOverflows(x, y) THEN U32Max ELSE WAdd(x, y)

\* (mutant) nth skips nothing
IterNth_NoSkip(a, p, iter, n) == IterNext(a, p, iter)

\* Iter::nth(n), n a usize (u64): offset.saturating_add(n or u32::MAX), next
IterNth(a, p, iter, n) ==
    LET n32 == IF n[3] = 0 /\ n[4] = 0 THEN WTrunc(n, 2) ELSE U32Max
    IN  IterNext(a, p, [iter EXCEPT !.offset = SaturatingAdd(iter.offset, n32)])

\* Iter::len (and size_hint, count): (count - offset).try_into().unwrap().
\* The u32 subtraction panics below zero with overflow checks on and wraps
\* without; the conversion to usize never fails.
IterLen(iter, checks) ==
    IF WSubOverflows(iter.count, iter.offset) /\ checks
    THEN [tag |-> "panic", len |-> U32(0)]
    ELSE [tag |-> "ok", len |-> WSub(iter.count, iter.offset)]

\* ----------------------------------------------------------- directory tree
\* A Node is File(n) or Dir(n), n a u32.  A directory is a BTreeMap from
\* names to Nodes: a function on its set of keys, iterated in key order.
File(n) == [kind |-> "File", n |-> n]
Dir(n) == [kind |-> "Dir", n |-> n]
EmptyDir == <<>>
Slash == 47

RECURSIVE SplitFrom(_, _, _)
SplitFrom(name, cur, acc) ==
    LET flush == IF cur = <<>> THEN acc ELSE Append(acc, cur)
    IN  IF name = <<>> THEN flush
        ELSE IF Head(name) = Slash THEN SplitFrom(Tail(name), <<>>, flush)
        ELSE SplitFrom(Tail(name), Append(cur, Head(name)), acc)

RECURSIVE SplitRaw(_, _, _)
SplitRaw(name, cur, acc) ==
    IF name = <<>> THEN Append(acc, cur)
    ELSE IF Head(name) = Slash THEN SplitRaw(Tail(name), <<>>, Append(acc, cur))
    ELSE SplitRaw(Tail(name), Append(cur, Head(name)), acc)

\* (mutant) split without the filter: empty components are kept
Split_KeepEmpty(name) == SplitRaw(name, <<>>, <<>>)

\* name.split(|&c| c == b'/').filter(|p| !p.is_empty())
Split(name) == SplitFrom(name, <<>>, <<>>)

\* BTreeMap::entry(k).or_insert(v): the map with k bound, to v if it was not
OrInsert(d, k, v) == IF k \in DOMAIN d THEN d ELSE (k :> v) @@ d

\* (mutant) a directory is pushed for every component that is not the last,
\* also when the slot already leads to one
DirSlot_AlwaysNew(dirs, di, p) ==
    LET l == U32(Len(dirs))
        d == OrInsert(dirs[WVal(di) + 1], p, File(U32Max))
    IN  [dirs |-> Append([dirs EXCEPT ![WVal(di) + 1] = [d EXCEPT ![p] = Dir(l)]],
                         EmptyDir),
         di |-> l]

\* (mutant) a File found at a component that is not the last is kept: the
\* directory is pushed and descended into, the slot is left as it was
DirSlot_KeepFile(dirs, di, p) ==
    LET l == U32(Len(dirs))
        d == OrInsert(dirs[WVal(di) + 1], p, File(U32Max))
    IN  IF d[p].kind = "Dir"
        THEN [dirs |-> [dirs EXCEPT ![WVal(di) + 1] = d], di |-> d[p].n]
        ELSE IF p \in DOMAIN dirs[WVal(di) + 1]
        THEN [dirs |-> Append(dirs, EmptyDir), di |-> l]
        ELSE [dirs |-> Append([dirs EXCEPT ![WVal(di) + 1] = [d EXCEPT ![p] = Dir(l)]],
                              EmptyDir),
              di |-> l]

\* the slot of a component that is not the last: a Dir(n) is descended into,
\* anything else (the File(u32::MAX) just inserted, or a File found there)
\* becomes Dir(l), l the index of the directory pushed for it
DirSlot(dirs, di, p) ==
    LET l == U32(Len(dirs))
        d == OrInsert(dirs[WVal(di) + 1], p, File(U32Max))
    IN  IF d[p].kind = "Dir"
        THEN [dirs |-> [dirs EXCEPT ![WVal(di) + 1] = d], di |-> d[p].n]
        ELSE [dirs |-> Append([dirs EXCEPT ![WVal(di) + 1] = [d EXCEPT ![p] = Dir(l)]],
                              EmptyDir),
              di |-> l]

\* (mutant) the last component's slot is written whatever it holds
FileSlot_Overwrite(dirs, di, p, i) ==
    [dirs EXCEPT ![WVal(di) + 1] = (p :> File(U32(i))) @@ dirs[WVal(di) + 1]]

\* the slot of the last component: or_insert_with(|| File(i))
FileSlot(dirs, di, p, i) ==
    [dirs EXCEPT ![WVal(di) + 1] = OrInsert(dirs[WVal(di) + 1], p, File(U32(i)))]

RECURSIVE Walk(_, _, _, _)
\* the `while let Some(p) = it.next()` loop of Fs::new over the components
\* of entry i's name, from directory di
Walk(dirs, di, comps, i) ==
    IF comps = <<>> THEN dirs
    ELSE IF Len(comps) > 1
    THEN LET s == DirSlot(dirs, di, Head(comps))
         IN  Walk(s.dirs, s.di, Tail(comps), i)
    ELSE Walk(FileSlot(dirs, di, Head(comps), i), di, Tail(comps), i)

\* One turn of the `for (i, e)` loop of Fs::new: the iterator's next entry
\* (get), its name (Entry::name), the walk.  "done" when the iterator ends,
\* "panic" when an unwrap meets an I/O error.
NewStep(a, p, iter, i, dirs) ==
    LET nx == IterNext(a, p, iter)
        nm == EntryName(a, nx.pos, nx.entry)
        same == [pos |-> p, iter |-> iter, i |-> i, dirs |-> dirs]
    IN  IF ~nx.some THEN [tag |-> "done"] @@ same
        ELSE IF ~nx.ok \/ ~nm.ok THEN [tag |-> "panic"] @@ same
        ELSE [tag |-> "next", pos |-> nm.pos, iter |-> nx.iter, i |-> i + 1,
              dirs |-> Walk(dirs, U32(0), Split(nm.name), i)]

RECURSIVE NewLoop(_, _, _, _, _)
NewLoop(a, p, iter, i, dirs) ==
    LET s == NewStep(a, p, iter, i, dirs)
    IN  IF s.tag = "next" THEN NewLoop(a, s.pos, s.iter, s.i, s.dirs) ELSE s

\* Fs::new on a file just opened (cursor 0): Header::load().unwrap(),
\* header.iter().unwrap(), the loop, s.dirs = dirs
FsNew(a) ==
    LET h == HeaderLoad(a, U64(0))
        it == HeaderIter(h.pos, h.header)
        s == NewLoop(a, it.pos, it.iter, 0, <<EmptyDir>>)
    IN  IF h.tag # "Ok"
        THEN [tag |-> "panic", header |-> h.header, pos |-> h.pos, dirs |-> <<>>]
        ELSE [tag |-> s.tag, header |-> h.header, pos |-> s.pos, dirs |-> s.dirs]

\* ------------------------------------------------------------ inode mapper
\* (mutant) files are numbered from 1 like directories
to_ino_NoFileBit(node) == WAdd(U64(1), WExt(node.n, 4))

\* Node::to_ino: 1 + (n | 1 << 63) for a File, 1 + n for a Dir
to_ino(node) ==
    WAdd(U64(1), IF node.kind = "File" THEN XorBit63(WExt(node.n, 4))
                 ELSE WExt(node.n, 4))

\* Node::to_ty
to_ty(node) == IF node.kind = "File" THEN "RegularFile" ELSE "Directory"

NoNode == File(U32(0))

\* Fs::entry.  `ino - 1` at ino = 0 panics with overflow checks on and wraps
\* to u64::MAX without.
entry(h, dirs, ino, checks) ==
    LET n == WSub(ino, U64(1))
    IN  IF checks /\ WSubOverflows(ino, U64(1))
        THEN [tag |-> "panic", node |-> NoNode]
        ELSE IF Bit63(n)
        THEN IF WLt(XorBit63(n), WExt(h.file_count, 4))
             THEN [tag |-> "Some", node |-> File(WTrunc(n, 2))]
             ELSE [tag |-> "None", node |-> NoNode]
        ELSE IF WLt(n, U64(Len(dirs)))
             THEN [tag |-> "Some", node |-> Dir(WTrunc(n, 2))]
             ELSE [tag |-> "None", node |-> NoNode]

\* ------------------------------------------------------- protocol adapter
\* x with its k low bits cleared: x & !((1 << k) - 1)
ClearLow(x, k) ==
    [j \in 1..Len(x) |->
        LET lo == 16 * (j - 1)
        IN  IF k >= lo + 16 THEN 0
            ELSE IF k <= lo THEN x[j]
            ELSE x[j] - (x[j] % (2 ^ (k - lo)))]

NoAttr ==
    [kind |-> "none", size |-> U64(0), blocks |-> U64(0), ino |-> U64(0),
     blksize |-> U32(0), perm |-> 0, nlink |-> 0, uid |-> 0, gid |-> 0]

\* Fs::attr.  `1u64 << block_size` faults at block_size >= 64 and the u32
\* `1 << block_size` of blksize at block_size >= 32, with overflow checks on.
AttrFaults(h, checks) ==
    ShiftFaults(64, h.block_size, checks) \/ ShiftFaults(32, h.block_size, checks)

attr(h, ty, size, ino) ==
    LET block_mask == WSub(WShl(U64(1), ShiftAmount(64, h.block_size)), U64(1))
    IN  [kind |-> ty, size |-> size,
         blocks |-> ClearLow(WAdd(size, block_mask), ShiftAmount(64, h.block_size)),
         ino |-> ino,
         blksize |-> WShl(U32(1), ShiftAmount(32, h.block_size)),
         perm |-> 511, nlink |-> 1, uid |-> 0, gid |-> 0]

\* Node::size: the entry's file_size, re-read from the stream
\* (header.get(n).unwrap().unwrap()), or the directory's number of children
NodeSize(a, p, h, dirs, node) ==
    IF node.kind = "File"
    THEN LET g == HeaderGet(a, p, h, node.n)
         IN  [ok |-> g.some /\ g.ok, size |-> WExt(g.entry.file_size, 4), pos |-> g.pos]
    ELSE [ok |-> TRUE, size |-> U64(Cardinality(DOMAIN dirs[WVal(node.n) + 1])),
          pos |-> p]

NoData == [start |-> U64(0), len |-> 0, got |-> 0]

\* what a handler leaves: the reply and the stream's cursor
Out(status, at, data, entries, full, p) ==
    [status |-> status, attr |-> at, data |-> data, entries |-> entries,
     full |-> full, pos |-> p]
NotFound(p) == Out("ENOENT", NoAttr, NoData, <<>>, FALSE, p)
Panic(p) == Out("panic", NoAttr, NoData, <<>>, FALSE, p)

\* &self.attr(e.to_ty(), e.size(self), e.to_ino()) and the reply with it
AttrOut(a, p, h, dirs, node, checks) ==
    LET sz == NodeSize(a, p, h, dirs, node)
    IN  IF ~sz.ok \/ AttrFaults(h, checks) THEN Panic(sz.pos)
        ELSE Out("ok", attr(h, to_ty(node), sz.size, to_ino(node)), NoData, <<>>,
                 FALSE, sz.pos)

\* Fs::lookup
lookup(a, p, h, dirs, parent, name, checks) ==
    LET e == entry(h, dirs, parent, checks)
    IN  IF e.tag = "panic" THEN Panic(p)
        ELSE IF e.tag = "Some" /\ e.node.kind = "Dir"
        THEN LET d == dirs[WVal(e.node.n) + 1]
             IN  IF name \in DOMAIN d
                 THEN AttrOut(a, p, h, dirs, d[name], checks)
                 ELSE NotFound(p)
        ELSE NotFound(p)

\* Fs::getattr
getattr(a, p, h, dirs, ino, checks) ==
    LET e == entry(h, dirs, ino, checks)
    IN  IF e.tag = "panic" THEN Panic(p)
        ELSE IF e.tag = "Some" THEN AttrOut(a, p, h, dirs, e.node, checks)
        ELSE NotFound(p)

\* the size of buf: [0; 1 << 16]
BufLen == 2^16

\* (e.size() as i128 - offset).min(size).min(buf.len()).max(0)
ReadSize(e, offset, size) ==
    SMax(SMin(SMin(SSub(I128(e.file_size), offset), I128(size)), I128(U64(BufLen))),
         I128(U64(0)))

\* File::read into buf[..n] at cursor p: the bytes the stream has there
ReadSome(a, p, n) == IF n <= Avail(a, p) THEN n ELSE Avail(a, p)

\* Fs::read; offset is the request's i64, size its u32
read(a, p, h, dirs, ino, offset, size, checks) ==
    LET e == entry(h, dirs, ino, checks)
        g == HeaderGet(a, p, h, e.node.n)
        offt == SAdd(I128(EntryOffset(g.entry, h)), offset)
        n == WVal(ReadSize(g.entry, offset, size).mag)
        at == Seek(g.pos, WTrunc(offt.mag, 4))
        got == ReadSome(a, at, n)
    IN  IF e.tag = "panic" THEN Panic(p)
        ELSE IF e.tag = "Some" /\ e.node.kind = "File"
        THEN IF ~g.some \/ ~g.ok THEN Panic(g.pos)
             ELSE IF ShiftFaults(64, h.block_size, checks) THEN Panic(g.pos)
             ELSE IF ~SFitsU64(offt) THEN Panic(g.pos)
             ELSE Out("ok", NoAttr, [start |-> at, len |-> n, got |-> got], <<>>,
                      FALSE, WAdd(at, U64(got)))
        ELSE NotFound(p)

\* reply.data(&buf[..size]): byte k of the reply.  buf starts as zeros and
\* the one read fills its first `got` bytes from the stream at `start`.
DataByte(a, d, k) == IF k < d.got THEN ByteAt(a, WVal(d.start) + k) ELSE 0

RECURSIVE BytesLt(_, _)
\* the order of [u8] keys in a BTreeMap: lexicographic, a prefix first
BytesLt(x, y) ==
    IF y = <<>> THEN FALSE
    ELSE IF x = <<>> THEN TRUE
    ELSE IF Head(x) # Head(y) THEN Head(x) < Head(y)
    ELSE BytesLt(Tail(x), Tail(y))

RECURSIVE SortKeys(_)
SortKeys(S) ==
    IF S = {} THEN <<>>
    ELSE LET m == CHOOSE x \in S : \A y \in S \ {x} : BytesLt(x, y)
         IN  <<m>> \o SortKeys(S \ {m})

\* BTreeMap::iter: the keys of a directory in ascending order
Keys(d) == SortKeys(DOMAIN d)

Dot == <<46>>
DotDot == <<46, 46>>
\* a sink that never reports full
Unlimited == 0 - 1

\* ReplyDirectory::add on a sink that takes cap entries: "full" and the
\* entry dropped once cap entries are in, else the entry appended
Add(acc, e, cap) ==
    IF cap # Unlimited /\ Len(acc) >= cap THEN [full |-> TRUE, acc |-> acc]
    ELSE [full |-> FALSE, acc |-> Append(acc, e)]

\* (mutant) the next-cursor of a child is its own cursor
ChildEntry_SameCursor(d, keys, i) ==
    [ino |-> U64(i + 2), next |-> i + 2, kind |-> to_ty(d[keys[i + 1]]),
     name |-> keys[i + 1]]

\* what readdir hands to add for the child at position i of the iteration
ChildEntry(d, keys, i) ==
    [ino |-> U64(i + 2), next |-> i + 3, kind |-> to_ty(d[keys[i + 1]]),
     name |-> keys[i + 1]]

RECURSIVE Emit(_, _, _, _, _)
\* the for loop of readdir from position i of the enumeration
Emit(d, keys, i, acc, cap) ==
    IF i >= Len(keys) THEN [full |-> FALSE, acc |-> acc]
    ELSE LET r == Add(acc, ChildEntry(d, keys, i), cap)
         IN  IF r.full THEN r ELSE Emit(d, keys, i + 1, r.acc, cap)

\* .skip((offset - 2) as usize): a negative difference casts to a count
\* past every directory, which skips every child
SkipTo(keys, offset) == IF offset - 2 < 0 THEN Len(keys) ELSE offset - 2

\* (mutant) ".." is the root
SelfEntry_Root(n, next, name) ==
    [ino |-> IF name = DotDot THEN to_ino(Dir(U32(0))) ELSE to_ino(Dir(n)),
     next |-> next, kind |-> "Directory", name |-> name]

\* what readdir hands to add for "." and "..", n the index of the directory
\* listed: (Node::Dir(n).to_ino(), next, FileType::Directory, name)
SelfEntry(n, next, name) ==
    [ino |-> to_ino(Dir(n)), next |-> next, kind |-> "Directory", name |-> name]

\* Fs::readdir with a sink that takes cap entries
readdir(p, h, dirs, ino, offset, cap, checks) ==
    LET e == entry(h, dirs, ino, checks)
        d == dirs[WVal(e.node.n) + 1]
        s0 == IF offset = 0
              THEN Add(<<>>, SelfEntry(e.node.n, 1, Dot), cap)
              ELSE [full |-> FALSE, acc |-> <<>>]
        o1 == IF offset = 0 THEN offset + 1 ELSE offset
        s1 == IF o1 = 1
              THEN Add(s0.acc, SelfEntry(e.node.n, 2, DotDot), cap)
              ELSE s0
        o2 == IF o1 = 1 THEN o1 + 1 ELSE o1
        s2 == Emit(d, Keys(d), SkipTo(Keys(d), o2), s1.acc, cap)
    IN  IF e.tag = "panic" THEN Panic(p)
        ELSE IF e.tag = "Some" /\ e.node.kind = "Dir"
        THEN IF s0.full THEN Out("ok", NoAttr, NoData, s0.acc, TRUE, p)
             ELSE IF s1.full THEN Out("ok", NoAttr, NoData, s1.acc, TRUE, p)
             ELSE Out("ok", NoAttr, NoData, s2.acc, s2.full, p)
        ELSE NotFound(p)

\* ---------------------------------------------------------------- archives
\* The archives TLC mounts: images laid out as the format reader expects
\* them (header, entry table, names), and headers that are not well formed.
U32Le(w) == <<w[1] % 256, w[1] \div 256, w[2] % 256, w[2] \div 256>>

RECURSIVE Flatten(_)
Flatten(ss) == IF ss = <<>> THEN <<>> ELSE Head(ss) \o Flatten(Tail(ss))

HeaderBytes(magic, version, b, count) ==
    magic \o <<version, b, 0, 0>> \o U32Le(count)

RECURSIVE NameAddr(_, _)
\* where the name of file k (from 1) is put: after the table and the names
\* before it
NameAddr(files, k) ==
    IF k = 1 THEN 16 + 12 * Len(files)
    ELSE NameAddr(files, k - 1) + 1 + Len(files[k - 1].name)

TableBytes(files) ==
    Flatten([k \in 1..Len(files) |->
        U32Le(U32(NameAddr(files, k))) \o U32Le(files[k].block)
            \o U32Le(files[k].size)])

NameBytes(files) ==
    Flatten([k \in 1..Len(files) |-> <<Len(files[k].name)>> \o files[k].name])

\* a well-laid-out image of `files`, `tail` bytes following the names
Image(b, files, tail) ==
    LET bytes == HeaderBytes(MAGIC, VERSION, b, U32(Len(files)))
                     \o TableBytes(files) \o NameBytes(files)
    IN  [bytes |-> bytes, len |-> Len(bytes) + tail]

RECURSIVE SeqsUpTo(_, _)
\* the sequences over S of length at most n
SeqsUpTo(S, n) ==
    IF n = 0 THEN {<<>>}
    ELSE LET T == SeqsUpTo(S, n - 1)
         IN  T \cup {Append(t, x) : t \in {u \in T : Len(u) = n - 1}, x \in S}

\* "a/b/c.txt", "a/b", "a", "b", "/a//b/", "", "//"
N_abc == <<97, 47, 98, 47, 99, 46, 116, 120, 116>>
N_ab == <<97, 47, 98>>
N_a == <<97>>
N_b == <<98>>
N_messy == <<47, 97, 47, 47, 98, 47>>
N_empty == <<>>
N_slashes == <<47, 47>>
N_c == <<99, 46, 116, 120, 116>>

FileSet ==
    { [name |-> N_abc, block |-> U32(1), size |-> U32(5)],
      [name |-> N_ab, block |-> U32Max, size |-> U32(70000)],
      [name |-> N_a, block |-> U32(3), size |-> U32(0)],
      [name |-> N_b, block |-> U32(0), size |-> U32(16)],
      [name |-> N_messy, block |-> U32(2), size |-> U32Max],
      [name |-> N_empty, block |-> U32(1), size |-> U32(1)],
      [name |-> N_slashes, block |-> U32(1), size |-> U32(2)] }

\* headers of every kind: magic right or wrong in its first or last byte,
\* the version right or wrong, with and without their 16th byte
HeaderOnly ==
    { [bytes |-> SubSeq(HeaderBytes(m, v, b, c), 1, n), len |-> n] :
        m \in {MAGIC, [MAGIC EXCEPT ![1] = 110], [MAGIC EXCEPT ![8] = 0]},
        v \in {VERSION, 1, 255}, b \in {0, 200},
        c \in {U32(0), <<513, 1027>>, U32Max}, n \in {16, 15, 0} }

MountArchives ==
    {Image(0, fs, 0) : fs \in SeqsUpTo(FileSet, MaxFiles)} \cup HeaderOnly

VARIABLES
    arch,      \* the backing stream's content
    checks,    \* whether the build has overflow checks on (a debug build)
    pc,        \* where the process is
    pos,       \* the backing stream's cursor
    loaded,    \* the outcome of Header::load
    header,    \* Fs::header
    iter,      \* the entry iterator
    idx,       \* the count of enumerate() in Fs::new
    dirs,      \* Fs::dirs (in Fs::new, the dirs being built)
    item,      \* what the entry iterator yielded last
    req,       \* the request being answered
    reply,     \* the reply given to it
    listing    \* a consumer listing a directory call by call

vars == <<arch, checks, pc, pos, loaded, header, iter, idx, dirs, item, req,
          reply, listing>>

NoIter == [offset |-> U32(0), count |-> U32(0)]
NoItem == [some |-> FALSE, index |-> U32(0), entry |-> NoEntry]
NoReq == [op |-> "none", ino |-> U64(0), name |-> <<>>, offset |-> 0,
          woffset |-> I128(U64(0)), size |-> U32(0), cap |-> 0]
NoReply == [status |-> "none", attr |-> NoAttr, data |-> NoData,
            entries |-> <<>>, full |-> FALSE]
NoListing == [open |-> FALSE, ino |-> U64(0), cursor |-> 0, got |-> <<>>,
              stopped |-> FALSE, done |-> FALSE]

\* ------------------------------------------------------------------- mount
\* the process as main() starts Fs::new on the file it opened
InitMount ==
    /\ arch \in MountArchives
    /\ checks \in BOOLEAN
    /\ pc = "open"
    /\ pos = U64(0)
    /\ loaded = "none"
    /\ header = NoHeader
    /\ iter = NoIter
    /\ idx = 0
    /\ dirs = <<>>
    /\ item = NoItem
    /\ req = NoReq
    /\ reply = NoReply
    /\ listing = NoListing

\* Header::load(..).unwrap()
Load ==
    /\ pc = "open"
    /\ LET r == HeaderLoad(arch, pos)
       IN  /\ loaded' = r.tag
           /\ header' = r.header
           /\ pos' = r.pos
           /\ pc' = IF r.tag = "Ok" THEN "loaded" ELSE "panicked"
    /\ UNCHANGED <<arch, checks, iter, idx, dirs, item, req, reply, listing>>

\* let mut dirs = vec![BTreeMap::default()]; s.header.iter(..).unwrap()
StartIter ==
    /\ pc = "loaded"
    /\ LET r == HeaderIter(pos, header)
       IN  /\ iter' = r.iter
           /\ pos' = r.pos
    /\ dirs' = <<EmptyDir>>
    /\ idx' = 0
    /\ pc' = "build"
    /\ UNCHANGED <<arch, checks, loaded, header, item, req, reply, listing>>

\* one turn of the for loop of Fs::new; s.dirs = dirs when the iterator ends
BuildEntry ==
    /\ pc = "build"
    /\ LET s == NewStep(arch, pos, iter, idx, dirs)
       IN  /\ pos' = s.pos
           /\ iter' = s.iter
           /\ idx' = s.i
           /\ dirs' = s.dirs
           /\ pc' = IF s.tag = "next" THEN "build"
                    ELSE IF s.tag = "done" THEN "mounted" ELSE "panicked"
    /\ UNCHANGED <<arch, checks, loaded, header, item, req, reply, listing>>

NextMount == Load \/ StartIter \/ BuildEntry
SpecMount == InitMount /\ [][NextMount]_vars

\* ---------------------------------------------------------------- requests
\* the archives the request handlers are run on: every list of files at
\* block-size exponent 1, and one list at the exponents 32 and 64
FsFileSet ==
    { [name |-> N_abc, block |-> U32(1), size |-> U32(5)],
      [name |-> N_ab, block |-> U32Max, size |-> U32(70000)] }

FsConflict ==
    << [name |-> N_ab, block |-> U32Max, size |-> U32(70000)],
       [name |-> N_abc, block |-> U32(1), size |-> U32(5)] >>

FsArchives ==
    {Image(1, fs, 100) : fs \in SeqsUpTo(FsFileSet, MaxFiles)}
        \cup {Image(b, FsConflict, 100) : b \in {32, 64}}

\* the state Fs::new leaves when it returns: the filesystem as mounted
Mounted(mounts) ==
    /\ \E m \in mounts :
          /\ m.fs.tag = "done"
          /\ arch = m.arch
          /\ pos = m.fs.pos
          /\ header = m.fs.header
          /\ dirs = m.fs.dirs
    /\ checks \in BOOLEAN
    /\ pc = "mounted"
    /\ loaded = "Ok"
    /\ iter = NoIter
    /\ idx = 0
    /\ item = NoItem
    /\ req = NoReq
    /\ reply = NoReply
    /\ listing = NoListing

FsMounts == {[arch |-> a, fs |-> FsNew(a)] : a \in FsArchives}

Init == Mounted(FsMounts)

\* the inode of every directory and file, and inodes of neither:
\* 0, one past the last directory, one past the last file, u64::MAX
DirInos == {U64(k) : k \in 1..Len(dirs)}
FileInos == {to_ino(File(U32(k))) : k \in 0..(WVal(header.file_count) - 1)}
BadInos ==
    {U64(0), U64(Len(dirs) + 1), to_ino(File(header.file_count)), U64Max}
Inos == DirInos \cup FileInos \cup BadInos

\* every name bound in some directory and a name bound in none
BoundNames == UNION {DOMAIN dirs[k] : k \in 1..Len(dirs)}
LookupNames == BoundNames \cup {<<122>>}

\* what read is asked for, <<offset, size>>: the start, the middle and the
\* end of a 5-byte file, all and the last 65536 bytes of a 70000-byte file, an
\* offset of 2^32
ReadRanges ==
    { <<I128(U64(0)), U32(4)>>, <<I128(U64(3)), U32(4)>>, <<I128(U64(5)), U32(4)>>,
      <<I128(U64(0)), U32Max>>,
      <<I128(U64(4464)), U32Max>>, <<I128(<<0, 0, 1, 0>>), U32(4)>> }
\* the inodes lookup, read and readdir are asked about: the first and the
\* last directory, the first and the last file, inode 0 and u64::MAX
SomeInos ==
    {U64(1), U64(Len(dirs)), U64(0), U64Max}
        \cup {i \in FileInos : i = to_ino(File(U32(0)))
                                \/ to_ino(File(header.file_count)) = WAdd(i, U64(1))}
Caps == 0..MaxCap \cup {Unlimited}
SinkCaps == {1, Unlimited}
Cursors == 0..(MaxFiles + 1)

\* (mutant) serving a request empties the tree
Serve_DropsTree(r, o) ==
    /\ pc = "mounted"
    /\ req' = r
    /\ reply' = [status |-> o.status, attr |-> o.attr, data |-> o.data,
                 entries |-> o.entries, full |-> o.full]
    /\ pos' = o.pos
    /\ pc' = IF o.status = "panic" THEN "panicked" ELSE "mounted"
    /\ dirs' = <<EmptyDir>>
    /\ UNCHANGED <<arch, checks, loaded, header, iter, idx, item>>

\* a handler ran: its reply is given and the stream's cursor is where it
\* left it; a panic ends the process
Serve(r, o) ==
    /\ pc = "mounted"
    /\ req' = r
    /\ reply' = [status |-> o.status, attr |-> o.attr, data |-> o.data,
                 entries |-> o.entries, full |-> o.full]
    /\ pos' = o.pos
    /\ pc' = IF o.status = "panic" THEN "panicked" ELSE "mounted"
    /\ UNCHANGED <<arch, checks, loaded, header, iter, idx, dirs, item>>

Lookup ==
    \E parent \in SomeInos, name \in LookupNames :
        /\ Serve([NoReq EXCEPT !.op = "lookup", !.ino = parent, !.name = name],
                 lookup(arch, pos, header, dirs, parent, name, checks))
        /\ UNCHANGED listing

Getattr ==
    \E ino \in Inos :
        /\ Serve([NoReq EXCEPT !.op = "getattr", !.ino = ino],
                 getattr(arch, pos, header, dirs, ino, checks))
        /\ UNCHANGED listing

Read ==
    \E ino \in SomeInos, r \in ReadRanges :
        /\ Serve([NoReq EXCEPT !.op = "read", !.ino = ino, !.woffset = r[1],
                               !.size = r[2]],
                 read(arch, pos, header, dirs, ino, r[1], r[2], checks))
        /\ UNCHANGED listing

Readdir ==
    \E ino \in SomeInos, offset \in Cursors, cap \in SinkCaps :
        /\ Serve([NoReq EXCEPT !.op = "readdir", !.ino = ino, !.offset = offset,
                               !.cap = cap],
                 readdir(pos, header, dirs, ino, offset, cap, checks))
        /\ UNCHANGED listing

Next == Lookup \/ Getattr \/ Read \/ Readdir
Spec == Init /\ [][Next]_vars

\* ----------------------------------------------------------------- listing
\* A consumer lists one directory: it starts at cursor 0 and gives every
\* following readdir the next-cursor of the last entry its sink took.  The
\* sink of each call takes some number of entries and then reports full.
ListArchives == {Image(0, fs, 0) : fs \in SeqsUpTo(FileSet, MaxFiles)}

ListMounts == {[arch |-> a, fs |-> FsNew(a)] : a \in ListArchives}

InitListing == Mounted(ListMounts)

Opendir ==
    /\ pc = "mounted"
    /\ ~listing.open
    /\ \E ino \in DirInos :
          listing' = [open |-> TRUE, ino |-> ino, cursor |-> 0, got |-> <<>>,
                      stopped |-> FALSE, done |-> FALSE]
    /\ UNCHANGED <<arch, checks, pc, pos, loaded, header, iter, idx, dirs, item,
                   req, reply>>

ReaddirResume ==
    /\ listing.open
    /\ ~listing.done
    /\ \E cap \in Caps :
          LET o == readdir(pos, header, dirs, listing.ino, listing.cursor, cap,
                           checks)
          IN  /\ Serve([NoReq EXCEPT !.op = "readdir", !.ino = listing.ino,
                                     !.offset = listing.cursor, !.cap = cap], o)
              /\ listing' =
                    [listing EXCEPT
                        !.got = @ \o o.entries,
                        !.cursor = IF o.entries = <<>> THEN @
                                   ELSE o.entries[Len(o.entries)].next,
                        !.stopped = @ \/ o.full,
                        !.done = o.status = "ok" /\ ~o.full]

NextListing == Opendir \/ ReaddirResume
SpecListing == InitListing /\ [][NextListing]_vars

\* ---------------------------------------------------------------- iterator
\* A client of the entry iterator: next and nth in any order, while other
\* operations seek and read the same stream between its steps.
\* How far past the end nth may have taken the cursor for nth to be tried.
MaxPast == 1

InitIter ==
    /\ arch \in ListArchives
    /\ checks \in BOOLEAN
    /\ HeaderLoad(arch, U64(0)).tag = "Ok"
    /\ pc = "loaded"
    /\ pos = HeaderLoad(arch, U64(0)).pos
    /\ loaded = "Ok"
    /\ header = HeaderLoad(arch, U64(0)).header
    /\ iter = NoIter
    /\ idx = 0
    /\ dirs = <<>>
    /\ item = NoItem
    /\ req = NoReq
    /\ reply = NoReply
    /\ listing = NoListing

NewIter ==
    /\ pc = "loaded"
    /\ iter' = HeaderIter(pos, header).iter
    /\ pos' = HeaderIter(pos, header).pos
    /\ pc' = "iter"
    /\ UNCHANGED <<arch, checks, loaded, header, idx, dirs, item, req, reply,
                   listing>>

\* the iterator yielded r; `at` is the position of what it yielded, counted
\* by the client: idx entries were passed before, and `skip` skipped now
Yield(r, skip) ==
    /\ iter' = r.iter
    /\ pos' = r.pos
    /\ item' = [some |-> r.some /\ r.ok, index |-> U32(idx + skip),
                entry |-> r.entry]
    /\ idx' = idx + skip + 1
    /\ pc' = IF r.ok THEN "iter" ELSE "panicked"
    /\ UNCHANGED <<arch, checks, loaded, header, dirs, req, reply, listing>>

StepNext ==
    /\ pc = "iter"
    /\ idx <= WVal(header.file_count) + MaxPast
    /\ Yield(IterNext(arch, pos, iter), 0)

StepNth ==
    /\ pc = "iter"
    /\ idx <= WVal(header.file_count) + MaxPast
    /\ \E n \in 0..(MaxFiles + 1) : Yield(IterNth(arch, pos, iter, U64(n)), n)

\* another operation's Seek, Advance or Read on the shared stream
Elsewhere ==
    /\ pc = "iter"
    /\ \/ \E t \in {U64(0), U64(16), U64(21), U64(40)} : pos' = Seek(pos, t)
       \/ pos' = Advance(pos, SInt(TRUE, U64(4)))
       \/ ReadExact(arch, pos, 3).ok /\ pos' = ReadExact(arch, pos, 3).pos
    /\ UNCHANGED <<arch, checks, pc, loaded, header, iter, idx, dirs, item, req,
                   reply, listing>>

NextIter == NewIter \/ StepNext \/ StepNth \/ Elsewhere
SpecIter == InitIter /\ [][NextIter]_vars

\* ================================================================== claims

\* C1 (SpecListing): a consumer that lists a directory from cursor 0,
\* resuming each call at the next-cursor of the last entry its sink took,
\* has received at every moment ".", then "..", then children of the
\* directory in strictly ascending name order (so none twice), and has
\* received every child once a call ends without the sink reporting full,
\* wherever the sinks of the calls reported full.
C1_ReaddirResumption ==
    listing.open =>
        LET g == listing.got
            d == dirs[WVal(listing.ino)]
        IN  /\ Len(g) >= 1 => g[1].name = Dot /\ g[1].kind = "Directory"
            /\ Len(g) >= 2 => g[2].name = DotDot /\ g[2].kind = "Directory"
            /\ \A k \in 3..Len(g) : g[k].name \in DOMAIN d
            /\ \A k \in 3..(Len(g) - 1) : BytesLt(g[k].name, g[k + 1].name)
            /\ Len(g) <= 2 + Cardinality(DOMAIN d)
            /\ listing.done => Len(g) = 2 + Cardinality(DOMAIN d)
            /\ reply.status \in {"none", "ok"}

\* a listing of a directory of two children, finished over several calls
C1_Witness ==
    /\ listing.done
    /\ listing.stopped
    /\ Len(listing.got) = 4

\* C2 (Spec): every child readdir emits (the entries from cursor 2 on, whose
\* next-cursor is 3 or more) carries the child's name, the inode to_ino of
\* the child's node, which is the inode lookup replies for it, and the
\* node's kind; the next-cursors of a reply are strictly ascending.
C2_ReaddirEmitsChildInode ==
    (req.op = "readdir" /\ reply.status = "ok") =>
        LET d == dirs[WVal(req.ino)]
            es == reply.entries
        IN  /\ \A k \in 1..Len(es) :
                  es[k].next >= 3 =>
                      /\ es[k].name \in DOMAIN d
                      /\ es[k].ino = to_ino(d[es[k].name])
                      /\ es[k].kind = to_ty(d[es[k].name])
            /\ \A k \in 1..(Len(es) - 1) : es[k].next < es[k + 1].next

\* C3 (Spec): decoding the inode of any directory index below the number of
\* directories, and of any file index below the file count, gives the node
\* back; the root's inode is 1; no two nodes share an inode; and the inode
\* getattr replies with is the inode it was asked about.
ValidNodes ==
    {Dir(U32(k)) : k \in 0..(Len(dirs) - 1)}
        \cup {File(U32(k)) : k \in 0..(WVal(header.file_count) - 1)}

C3_InodeRoundTrip ==
    /\ \A n \in ValidNodes :
          entry(header, dirs, to_ino(n), checks) = [tag |-> "Some", node |-> n]
    /\ to_ino(Dir(U32(0))) = U64(1)
    /\ \A m, n \in ValidNodes : to_ino(m) = to_ino(n) => m = n
    /\ (req.op = "getattr" /\ reply.status = "ok") =>
          /\ reply.attr.ino = req.ino
          /\ \E n \in ValidNodes : to_ino(n) = req.ino /\ to_ty(n) = reply.attr.kind

\* getattr answered for a file, in a tree of several directories
C3_Witness ==
    /\ req.op = "getattr"
    /\ reply.status = "ok"
    /\ reply.attr.kind = "RegularFile"
    /\ Bit63(req.ino)
    /\ Len(dirs) >= 3

\* C4 (Spec): a request about an inode that is the inode of no directory
\* and of no file, inode 0 among them, is answered NotFound.
C4_InvalidInodeNotFound ==
    (req.op # "none" /\ req.ino \notin {to_ino(n) : n \in ValidNodes}) =>
        reply.status = "ENOENT"

\* C5 (Spec): read of a file of S bytes at an offset >= 0 for r bytes replies
\* with min(max(0, S - offset), r, 65536) bytes: none, and no error, at an
\* offset >= S, and never more than 65536.
FileOfIno(ino) == CHOOSE n \in ValidNodes : to_ino(n) = ino
SizeOfFile(n) == get(arch, pos, n.n).entry.file_size
Clamped(S, offset, r) ==
    IF WLe(WExt(S, 8), offset.mag) THEN 0
    ELSE LET rest == WSub(WExt(S, 8), offset.mag)
             a == IF WLt(WExt(r, 8), rest) THEN WExt(r, 8) ELSE rest
         IN  IF WLt(WExt(U32(BufLen), 8), a) THEN BufLen ELSE WVal(a)

C5_ReadClamps ==
    (req.op = "read" /\ req.ino \in FileInos /\ ~req.woffset.neg) =>
        /\ reply.status = "ok"
        /\ reply.data.len = Clamped(SizeOfFile(FileOfIno(req.ino)), req.woffset,
                                    req.size)
        /\ reply.data.len <= BufLen

\* ------------------------------------------------ reading a tree by its paths
\* the name of entry i of the archive
NameOf(i) ==
    LET g == get(arch, pos, U32(i))
    IN  EntryName(arch, g.pos, g.entry).name

\* the maximal slash-free runs <<first, last>> of a name
Runs(name) ==
    {r \in (1..Len(name)) \X (1..Len(name)) :
        /\ r[1] <= r[2]
        /\ \A j \in r[1]..r[2] : name[j] # Slash
        /\ r[1] = 1 \/ name[r[1] - 1] = Slash
        /\ r[2] = Len(name) \/ name[r[2] + 1] = Slash}

RECURSIVE InOrder(_, _)
InOrder(name, R) ==
    IF R = {} THEN <<>>
    ELSE LET r == CHOOSE q \in R : \A o \in R : q[1] <= o[1]
         IN  <<SubSeq(name, r[1], r[2])>> \o InOrder(name, R \ {r})

\* the path a name spells: its non-empty components, left to right
Components(name) == InOrder(name, Runs(name))

Absent == [kind |-> "Absent", n |-> U32(0)]

RECURSIVE NodeAt(_, _, _)
\* the node a non-empty path leads to from directory di of a tree, going
\* down through directories only; Absent when it leads nowhere
NodeAt(ds, di, path) ==
    LET d == ds[di + 1]
        p == Head(path)
    IN  IF p \notin DOMAIN d THEN Absent
        ELSE IF Len(path) = 1 THEN d[p]
        ELSE IF d[p].kind # "Dir" THEN Absent
        ELSE NodeAt(ds, WVal(d[p].n), Tail(path))

Holds(ds, node) == \E i \in 1..Len(ds) : \E k \in DOMAIN ds[i] : ds[i][k] = node

Named(names) ==
    /\ WVal(header.file_count) = Len(names)
    /\ \A i \in 1..Len(names) : NameOf(i - 1) = names[i]

\* one turn of the builder's loop has processed entry idx
Processed == pc = "build" /\ pc' = "build"

C6_Step ==
    Processed =>
        LET path == Components(NameOf(idx))
        IN  IF path = <<>> THEN dirs' = dirs
            ELSE LET before == NodeAt(dirs, 0, path)
                     after == NodeAt(dirs', 0, path)
                 IN  IF before = Absent
                     THEN after = File(U32(idx))
                     ELSE after = before /\ ~Holds(dirs', File(U32(idx)))

C6_Mounted ==
    pc = "mounted" =>
        /\ Named(<<N_abc, N_ab>>) =>
               dirs = << N_a :> Dir(U32(1)), N_b :> Dir(U32(2)),
                         N_c :> File(U32(0)) >>
        /\ \A i \in 0..(WVal(header.file_count) - 1) :
               LET path == Components(NameOf(i))
                   node == IF path = <<>> THEN Absent ELSE NodeAt(dirs, 0, path)
               IN  path # <<>> =>
                       /\ node # Absent
                       /\ node.kind = "File" =>
                              /\ WVal(node.n) <= i
                              /\ Components(NameOf(WVal(node.n))) = path
                              /\ \A j \in 0..(WVal(node.n) - 1) :
                                     Components(NameOf(j)) # path

\* C6 (SpecMount): when the builder processes entry i, the slot of the last
\* component of its path gets File(i) if nothing was there, and keeps what it
\* held (a File or a Dir) otherwise, entry i then being in no slot at all;
\* the entries "a/b/c.txt", "a/b" mount as a -> b -> c.txt with a/b a
\* directory; and a path that leads to a file leads to the entry of lowest
\* index among the entries spelling that path.
C6_FirstWriterWins == [][C6_Step]_vars /\ []C6_Mounted

C6_Witness ==
    /\ pc = "mounted"
    /\ Named(<<N_abc, N_ab>>)
    /\ NodeAt(dirs, 0, <<N_a, N_b>>) = Dir(U32(2))
    /\ ~Holds(dirs, File(U32(1)))

C7_Step ==
    Processed =>
        LET path == Components(NameOf(idx))
            Pre(j) == NodeAt(dirs, 0, SubSeq(path, 1, j))
            Post(j) == NodeAt(dirs', 0, SubSeq(path, 1, j))
            inner == 1..(Len(path) - 1)
        IN  /\ \A j \in inner :
                   IF Pre(j).kind = "Dir" THEN Post(j) = Pre(j)
                   ELSE /\ Post(j).kind = "Dir"
                        /\ WVal(Post(j).n) >= Len(dirs)
                        /\ WVal(Post(j).n) < Len(dirs')
                        /\ DOMAIN dirs'[WVal(Post(j).n) + 1] = {path[j + 1]}
            /\ Len(dirs') =
                   Len(dirs) + Cardinality({j \in inner : Pre(j).kind # "Dir"})
            /\ \A i \in 1..Len(dirs) : \A k \in DOMAIN dirs[i] :
                   /\ k \in DOMAIN dirs'[i]
                   /\ dirs[i][k].kind = "Dir" => dirs'[i][k] = dirs[i][k]

C7_Mounted ==
    (pc = "mounted" /\ Named(<<N_ab, N_abc>>)) =>
        /\ dirs = << N_a :> Dir(U32(1)), N_b :> Dir(U32(2)),
                     N_c :> File(U32(1)) >>
        /\ ~Holds(dirs, File(U32(0)))

\* C7 (SpecMount): when the builder processes entry i, each component of its
\* path but the last that leads to a Dir is descended into and left as it
\* is, and each that leads to a File or to nothing becomes a Dir whose index
\* is that of one directory appended for it, which holds the next component
\* only; no other directory is created; the entries "a/b", "a/b/c.txt" mount
\* as a -> b -> c.txt with a/b a directory holding c.txt only, and File(0) is
\* in no slot.
C7_LastWriterWins == [][C7_Step]_vars /\ []C7_Mounted

C7_Witness ==
    /\ pc = "mounted"
    /\ Named(<<N_ab, N_abc>>)
    /\ NodeAt(dirs, 0, <<N_a, N_b>>) = Dir(U32(2))
    /\ NodeAt(dirs, 0, <<N_a, N_b, N_c>>) = File(U32(1))

\* C8 (SpecIter): what the iterator gave at the position the client counts
\* (one per next, n + 1 per nth(n)) is an entry exactly when the position is
\* below the file count, and is then the entry a direct get of that position
\* gives from any cursor, field by field; the iterator's own cursor is the
\* client's count, so positions ascend and nothing follows position N - 1.
C8_IterEqualsGet ==
    (pc = "iter" /\ idx > 0) =>
        LET i == idx - 1
        IN  /\ item.some <=> i < WVal(header.file_count)
            /\ item.some =>
                   /\ item.index = U32(i)
                   /\ \A q \in {pos, U64(0), U64(21)} :
                          LET g == get(arch, q, U32(i)).entry
                          IN  /\ item.entry.filename_addr = g.filename_addr
                              /\ item.entry.block_addr = g.block_addr
                              /\ item.entry.file_size = g.file_size
                   /\ WVal(iter.offset) = idx
            /\ ~item.some => iter.count = header.file_count

C8_Witness ==
    /\ pc = "iter"
    /\ WVal(header.file_count) = 2
    /\ item.some
    /\ item.index = U32(1)
    /\ item.entry = get(arch, U64(0), U32(1)).entry
    /\ item.entry # get(arch, U64(0), U32(0)).entry
    /\ pos = U64(21)

\* C9 (SpecMount): once Header::load has run, its outcome is the I/O error
\* and no header when the stream has fewer than 16 bytes; else BadMagic when
\* the first 8 bytes are not the magic, whatever byte 8 is; else
\* UnsupportedVersion when byte 8 is not the version; else a header whose
\* block-size exponent is byte 9 and whose file count, written little-endian,
\* is bytes 12..16.  Only that last outcome produces a header.
C9_HeaderLoad ==
    loaded # "none" =>
        LET b == [k \in 1..16 |-> ByteAt(arch, k - 1)]
        IN  /\ loaded = (IF arch.len < 16 THEN "Other"
                         ELSE IF \E k \in 1..8 : b[k] # MAGIC[k] THEN "BadMagic"
                         ELSE IF b[9] # VERSION THEN "UnsupportedVersion"
                         ELSE "Ok")
            /\ loaded = "Ok" =>
                   /\ header.block_size = b[10]
                   /\ U32Le(header.file_count) = <<b[13], b[14], b[15], b[16]>>
            /\ loaded # "Ok" => header = NoHeader /\ pc = "panicked"

C9_Witness ==
    /\ loaded = "BadMagic"
    /\ arch.len = 16
    /\ ByteAt(arch, 8) # VERSION
    /\ pc = "panicked"

\* C10 (Spec): a lookup whose parent is not a directory holding that name
\* (a directory without it, a file's inode, an invalid inode) replies
\* NotFound and leaves the filesystem mounted.
C10_LookupNotFound ==
    (req.op = "lookup"
        /\ ~(req.ino \in DirInos /\ req.name \in DOMAIN dirs[WVal(req.ino)])) =>
            reply.status = "ENOENT" /\ pc = "mounted"

\* what Fs::new built from the archive that is mounted
AsMounted == FsNew(arch)

\* C11 (Spec): no request, answered or not found, changes the list of
\* directories, a directory's names and nodes, the header's file count and
\* block-size exponent or the stream's content: after any requests they are
\* what Fs::new left.  The stream's cursor is free to move.
C11_TreeImmutable ==
    /\ arch \in FsArchives
    /\ dirs = AsMounted.dirs
    /\ header = AsMounted.header
    /\ header.file_count = HeaderLoad(arch, U64(0)).header.file_count
    /\ header.block_size = HeaderLoad(arch, U64(0)).header.block_size

C11_Witness ==
    /\ req.op = "read"
    /\ reply.status = "ok"
    /\ reply.data.got > 0
    /\ pos # AsMounted.pos
    /\ dirs = AsMounted.dirs
    /\ Len(dirs) > 1

\* the node a getattr or lookup request is about, Absent when it names none
Target ==
    IF req.op = "getattr" /\ req.ino \in DirInos \cup FileInos
    THEN FileOfIno(req.ino)
    ELSE IF req.op = "lookup" /\ req.ino \in DirInos
                /\ req.name \in DOMAIN dirs[WVal(req.ino)]
    THEN dirs[WVal(req.ino)][req.name]
    ELSE Absent

\* word w is 2^b
IsPow2(w, b) ==
    /\ b < 16 * Len(w)
    /\ \A j \in 1..Len(w) : w[j] = IF j = (b \div 16) + 1 THEN 2 ^ (b % 16) ELSE 0

\* C12 (Spec): getattr of a valid node, and lookup of a name bound to one,
\* reply attributes whose block size is 2^b for the header's exponent b, whose
\* size is the entry's file size for a file and the number of children for a
\* directory, and whose inode is to_ino of the node.
C12_AttrNumbers ==
    Target # Absent =>
        /\ reply.status = "ok"
        /\ IsPow2(reply.attr.blksize, header.block_size)
        /\ reply.attr.size =
               (IF Target.kind = "File" THEN WExt(SizeOfFile(Target), 4)
                ELSE U64(Cardinality(DOMAIN dirs[WVal(Target.n) + 1])))
        /\ reply.attr.ino = to_ino(Target)
        /\ reply.attr.kind = to_ty(Target)

\* C13 (Spec): in a readdir of directory d, the entry with next-cursor 1 is
\* "." and the entry with next-cursor 2 is "..", both are of kind Directory
\* and carry the inode 1 + d the request named, whichever directory that is;
\* "." comes first in a listing from cursor 0 and ".." follows it, or comes
\* first in a listing from cursor 1, whenever the sink has room.
C13_DotEntries ==
    (req.op = "readdir" /\ reply.status = "ok") =>
        LET es == reply.entries
        IN  /\ \A k \in 1..Len(es) :
                   es[k].next <= 2 =>
                       /\ es[k].name = (IF es[k].next = 1 THEN Dot ELSE DotDot)
                       /\ es[k].kind = "Directory"
                       /\ es[k].ino = req.ino
                       /\ WVal(es[k].ino) - 1 \in 0..(Len(dirs) - 1)
            /\ req.offset = 0 => Len(es) >= 1 /\ es[1].next = 1
            /\ req.offset = 1 => Len(es) >= 1 /\ es[1].next = 2
            /\ (req.offset = 0 /\ req.cap = Unlimited) =>
                   Len(es) >= 2 /\ es[2].next = 2

C13_Witness ==
    /\ req.op = "readdir"
    /\ reply.status = "ok"
    /\ req.ino = U64(2)
    /\ req.offset = 0
    /\ Len(reply.entries) >= 3
    /\ reply.entries[1].name = Dot
    /\ reply.entries[2].name = DotDot
    /\ reply.entries[2].ino = U64(2)

\* the entry of a file node, read from the archive
EntryOfFile(n) == get(arch, pos, n.n).entry

\* block * 2^b + offset, exactly, in 128 bits (b <= 96: a 32-bit block
\* shifted by b stays within them)
ExactStart(block, b, offset) ==
    LET w == WExt(block, 8)
        k == b \div 16
        limbs == [j \in 1..8 |-> IF j <= k THEN 0 ELSE w[j - k]]
    IN  WAdd(WShl(limbs, b % 16), offset.mag)

\* C14 (Spec): a read of a valid file at an offset >= 0 is answered, and the
\* position it seeks to is block_addr * 2^b + offset, the exact value, for
\* the header's exponent b and the entry's block address.
C14_ReadPosition ==
    (req.op = "read" /\ req.ino \in FileInos /\ ~req.woffset.neg) =>
        LET e == EntryOfFile(FileOfIno(req.ino))
            b == header.block_size
        IN  /\ reply.status = "ok"
            /\ IF b <= 96
               THEN WExt(reply.data.start, 8) = ExactStart(e.block_addr, b, req.woffset)
               ELSE WIsZero(e.block_addr)
                        /\ WExt(reply.data.start, 8) = req.woffset.mag

\* C15 (Spec): every byte of a read's reply was delivered by the stream: the
\* one read filled all the bytes replied, and the first and the last byte of
\* the reply are the stream's bytes at the position sought plus their index.
C15_ReadBytes ==
    (req.op = "read" /\ reply.status = "ok") =>
        LET d == reply.data
        IN  /\ d.got = d.len
            /\ \A k \in {0, d.len - 1} \cap 0..(d.len - 1) :
                   /\ Avail(arch, WAdd(d.start, U64(k))) > 0
                   /\ DataByte(arch, d, k) = ByteAt(arch, WVal(d.start) + k)

\* what the handler of request r replies when it finds the cursor at q
Answer(r, q) ==
    LET o == CASE r.op = "lookup" ->
                      lookup(arch, q, header, dirs, r.ino, r.name, checks)
               [] r.op = "getattr" -> getattr(arch, q, header, dirs, r.ino, checks)
               [] r.op = "read" ->
                      read(arch, q, header, dirs, r.ino, r.woffset, r.size, checks)
               [] OTHER -> readdir(q, header, dirs, r.ino, r.offset, r.cap, checks)
    IN  [status |-> o.status, attr |-> o.attr, data |-> o.data,
         entries |-> o.entries, full |-> o.full]

\* cursors a request may find: the start, inside the header, the table, a
\* name, the end of the stream, past it, u64::MAX
FoundAt == {U64(0), U64(7), U64(16), U64(29), U64(arch.len), <<0, 0, 1, 0>>, U64Max}

\* C16 (Spec): the reply to a request (status, attributes, data range and
\* bytes delivered, entries) is the reply its handler gives from any other
\* cursor: nothing a handler reads depends on where earlier requests left
\* the stream.
C16_CursorIndependent ==
    req.op # "none" => \A q \in FoundAt : Answer(req, q) = reply

C16_Witness ==
    /\ req.op = "getattr"
    /\ req.ino \in FileInos
    /\ reply.status = "ok"
    /\ WVal(reply.attr.size) = 5
    /\ pos # AsMounted.pos
    /\ Answer(req, U64(0)) = reply

\* C17 (SpecMount): in the tree being built after each entry, and in the
\* tree Fs::new returns, every File stored has an index below the number of
\* entries processed (so below the file count, and never the placeholder
\* u32::MAX), every Dir stored has an index below the number of directories,
\* and no name bound in a directory is empty.
C17_TreeIndices ==
    pc \in {"build", "mounted"} =>
        /\ WLe(U32(idx), header.file_count)
        /\ pc = "mounted" => U32(idx) = header.file_count
        /\ \A i \in 1..Len(dirs) : \A k \in DOMAIN dirs[i] :
               /\ k # <<>>
               /\ \A j \in 1..Len(k) : k[j] # Slash
               /\ dirs[i][k].kind \in {"File", "Dir"}
               /\ dirs[i][k].kind = "File" =>
                      /\ WLt(dirs[i][k].n, U32(idx))
                      /\ dirs[i][k].n # U32Max
               /\ dirs[i][k].kind = "Dir" => WLt(dirs[i][k].n, U32(Len(dirs)))

C17_Witness ==
    /\ pc = "mounted"
    /\ Named(<<N_messy, N_empty>>)
    /\ dirs = << N_a :> Dir(U32(1)), N_b :> File(U32(0)) >>

\* C18 (SpecIter): whatever next and nth calls were made, the iterator's
\* cursor is at most the file count, len replies, and what it replies is the
\* number of positions from the cursor to the file count, which is the
\* number of entries further next calls yield.
C18_IterLen ==
    pc = "iter" =>
        LET l == IterLen(iter, checks)
        IN  /\ WLe(iter.offset, iter.count)
            /\ l.tag = "ok"
            /\ WVal(l.len) =
                   Cardinality({i \in 0..(WVal(iter.count) - 1) :
                                   i >= WVal(iter.offset)})

\* the slots <<directory, name>> of a tree that hold Dir(n)
RefsTo(ds, n) ==
    UNION {{<<i, k>> : k \in {x \in DOMAIN ds[i] : ds[i][x] = Dir(U32(n))}} :
              i \in 1..Len(ds)}

RECURSIVE Reach(_, _)
\* the directory indices reached from those of S through Dir slots
Reach(ds, S) ==
    LET T == S \cup UNION {{WVal(ds[i + 1][k].n) :
                              k \in {x \in DOMAIN ds[i + 1] : ds[i + 1][x].kind = "Dir"}} :
                           i \in S}
    IN  IF T = S THEN S ELSE Reach(ds, T)

\* C19 (SpecMount): after each entry the builder processes, and when it
\* returns, the directories are a tree rooted at index 0: no slot holds
\* Dir(0), every other directory index is held by exactly one slot, every
\* directory is reached from the root, and every directory but the root
\* has a child.
C19_TreeShape ==
    pc \in {"build", "mounted"} =>
        /\ Len(dirs) >= 1
        /\ RefsTo(dirs, 0) = {}
        /\ \A n \in 1..(Len(dirs) - 1) :
               /\ Cardinality(RefsTo(dirs, n)) = 1
               /\ DOMAIN dirs[n + 1] # {}
        /\ Reach(dirs, {0}) = 0..(Len(dirs) - 1)

C19_Witness ==
    /\ pc = "build"
    /\ idx = 1
    /\ Len(dirs) = 3
    /\ RefsTo(dirs, 2) = {<<2, N_b>>}
    /\ Reach(dirs, {0}) = {0, 1, 2}

====
